---- MODULE Spec2Model ----
(***************************************************************************)
(* Workflow orchestration of flux-framework: WorkflowManager::             *)
(* execute_workflow, BaseWorkflow::execute_modules and the module gate     *)
(* ModuleManager::load_module, as a state machine.  One run of             *)
(* execute_workflow is modelled from the call to its return.  The          *)
(* operator's answers, the results of the modules and the probes of the    *)
(* host are inputs chosen at the step that reads them.                     *)
(***************************************************************************)
EXTENDS Integers, Sequences, FiniteSets, TLC

VARIABLES
    name,        \* the name the entry point was called with: the workflow of
                 \* execute_workflow, the module of load_module
    modules,     \* BaseWorkflow.modules: the list execute_modules iterates
    pc,          \* position of the run in execute_workflow / execute_modules
    i,           \* 1-based position of the loop in modules (enumerate's i + 1)
    completed,   \* execute_modules' counter
    failed,      \* execute_modules' counter
    skipped,     \* execute_modules' counter
    trace,       \* history: the calls the run made, in order
    summaries,   \* the summaries printed so far (each a sequence of lines)
    emResult,    \* what execute_modules returned (NoResult until it returns)
    result,      \* what the entry point returned (NoResult until it returns)
    loadArgs,    \* the args load_module was called with from the command line
    execArgs,    \* the args of each call of execute made by that load_module
    discovered,  \* history: each discover_modules call, its result and the
                 \* host it probed
    plan,        \* the module list execute_workflow printed before asking
    listed,      \* history: the result of each list_workflows call
    config,      \* the Config value that Config::set works on
    setCalls,    \* history: each Config::set call, its arguments, its result
                 \* and the Config before and after it
    allModules,  \* the vector of modules ModuleManager::new registers
    registry     \* ModuleManager.modules while new fills it: name -> module

\* the state of the calls made on the ModuleManager from the command line
mgrVars == <<loadArgs, execArgs, discovered>>

\* the state of the calls that are not part of a workflow run or of a
\* ModuleManager call: list_workflows, Config::set, ModuleManager::new
extVars == <<listed, config, setCalls, allModules, registry>>

vars == <<name, modules, pc, i, completed, failed, skipped, trace, summaries,
          emResult, result, mgrVars, plan, extVars>>

----------------------------------------------------------------------------
(* Bounds of the model *)

\* longest module list of a workflow
MaxLen == 3

----------------------------------------------------------------------------
(* Result values: Result<(), FluxError> and Result<bool, FluxError>; msg is  *)
(* the payload, a tuple of strings                                         *)

NoResult == [kind |-> "none", msg |-> <<>>]

Ok == [kind |-> "Ok", msg |-> <<>>]

\* Ok(true) / Ok(false)
OkBool(b) == [kind |-> "Ok", msg |-> IF b THEN <<"true">> ELSE <<"false">>]

\* FluxError::module
module(msg) == [kind |-> "Module", msg |-> msg]

\* FluxError::not_found
not_found(msg) == [kind |-> "NotFound", msg |-> msg]

\* FluxError::command_failed
command_failed(msg) == [kind |-> "CommandFailed", msg |-> msg]

\* FluxError::system
system(msg) == [kind |-> "System", msg |-> msg]

\* FluxError::External
External(e) == [kind |-> "External", msg |-> <<e>>]

\* FluxError::validation
validation(msg) == [kind |-> "Validation", msg |-> msg]

IsErr(r) == r.kind \notin {"Ok", "none"}

----------------------------------------------------------------------------
(* The registries *)

\* ModuleManager::new: the keys of the modules map
Registry ==
    {"update", "network", "hostname", "user", "ssh", "firewall", "certs",
     "sysctl", "zsh", "motd", "netdata"}

\* WorkflowManager::new: the keys of the workflows map
Workflows == {"essential", "complete", "security", "development", "monitoring"}

\* The names a workflow's list is drawn from: one module whose is_available
\* is the constant true, one whose is_available probes the host, and one name
\* that no module registers (the essential workflow lists it).
ModuleNames == {"hostname", "motd", "timezone"}

\* The workflow names a run is called with: a registered and an unknown one.
RequestNames == {"development", "backup"}

\* helpers::system::check_command: Ok(which(command).is_ok())
check_command(found) == OkBool(found)

\* Result::is_ok
is_ok(r) == r.kind = "Ok"

\* Module::is_available of each registered module; probe is what the host
\* answers to the module's probe (the command is on the PATH, the directory
\* exists).
update_is_available(probe) == TRUE

network_is_available(probe) == TRUE

hostname_is_available(probe) == TRUE

user_is_available(probe) ==
    is_ok(check_command(probe)) /\ is_ok(check_command(probe))

ssh_is_available(probe) ==
    is_ok(check_command(probe)) \/ is_ok(check_command(probe))

firewall_is_available(probe) ==
    \/ is_ok(check_command(probe))
    \/ is_ok(check_command(probe))
    \/ is_ok(check_command(probe))

certs_is_available(probe) ==
    /\ is_ok(check_command(probe))
    /\ (is_ok(check_command(probe)) \/ is_ok(check_command(probe)))

sysctl_is_available(probe) == is_ok(check_command(probe))

zsh_is_available(probe) ==
    is_ok(check_command(probe)) /\ is_ok(check_command(probe))

\* PathBuf::from(MOTD_DIR).exists()
motd_is_available(probe) == probe

netdata_is_available(probe) ==
    is_ok(check_command(probe)) \/ is_ok(check_command(probe))

\* Module::is_available, dispatched on the module registered under m
is_available(m, probe) ==
    CASE m = "update" -> update_is_available(probe)
      [] m = "network" -> network_is_available(probe)
      [] m = "hostname" -> hostname_is_available(probe)
      [] m = "user" -> user_is_available(probe)
      [] m = "ssh" -> ssh_is_available(probe)
      [] m = "firewall" -> firewall_is_available(probe)
      [] m = "certs" -> certs_is_available(probe)
      [] m = "sysctl" -> sysctl_is_available(probe)
      [] m = "zsh" -> zsh_is_available(probe)
      [] m = "motd" -> motd_is_available(probe)
      [] m = "netdata" -> netdata_is_available(probe)

\* ModuleManager::get_module
get_module(m) ==
    IF m \in Registry THEN Ok ELSE module(<<"not found", m>>)

\* get_workflow that finds every name
get_workflow_unchecked(w) == Ok

\* WorkflowManager::execute_workflow, the lookup
get_workflow(w) ==
    IF w \in Workflows THEN Ok ELSE not_found(<<"workflow not found", w>>)

----------------------------------------------------------------------------
(* The confirmation provider *)

\* the errors the terminal can answer a prompt with
ProviderErrors == {"io_closed", "io_interrupted"}

ProviderOutcomes == {"yes", "no"} \cup ProviderErrors

\* helpers::user_input::prompt_yes_no
prompt_yes_no(outcome) ==
    IF outcome \in ProviderErrors THEN External(outcome)
    ELSE OkBool(outcome = "yes")

----------------------------------------------------------------------------
(* History *)

Ev(e, k, v) == [ev |-> e, idx |-> k, val |-> v]

BoolStr(b) == IF b THEN "true" ELSE "false"

ResStr(r) == IF IsErr(r) THEN "err" ELSE "ok"

----------------------------------------------------------------------------
(* The branches of the code, as decisions *)

\* HasHelpFlag that looks at the first argument only
HasHelpFlag_first_only(args) ==
    Len(args) > 0 /\ (args[1] = "--help" \/ args[1] = "-h")

\* the help flag test of load_module
HasHelpFlag(args) ==
    \E k \in 1..Len(args) : args[k] = "--help" \/ args[k] = "-h"

\* LoadGate that tests the help flag before the availability
LoadGate_help_before_availability(m, avail, args) ==
    IF IsErr(get_module(m)) THEN "lookup_err"
    ELSE IF HasHelpFlag(args) THEN "help"
    ELSE IF ~avail THEN "unavailable"
    ELSE "execute"

\* LoadGate without the availability test
LoadGate_availability_unchecked(m, avail, args) ==
    IF IsErr(get_module(m)) THEN "lookup_err"
    ELSE IF HasHelpFlag(args) THEN "help"
    ELSE "execute"

\* ModuleManager::load_module up to the call of execute: which gate fires
LoadGate(m, avail, args) ==
    IF IsErr(get_module(m)) THEN "lookup_err"
    ELSE IF ~avail THEN "unavailable"
    ELSE IF HasHelpFlag(args) THEN "help"
    ELSE "execute"

\* the args execute_modules passes to load_module: vec![]
WorkflowArgs == <<>>

\* WorkflowGate that runs the workflow whatever the operator answers
WorkflowGate_answer_ignored(r) == IF IsErr(r) THEN "propagate" ELSE "execute"

\* execute_workflow: the overall confirmation and its `?`
WorkflowGate(r) ==
    IF IsErr(r) THEN "propagate"
    ELSE IF r # OkBool(TRUE) THEN "cancel"
    ELSE "execute"

\* AfterExecutor that returns without the reboot check
AfterExecutor_no_reboot_check(r) == "done"

\* execute_workflow: `workflow.execute(config).await?;` and what follows it
AfterExecutor(r) == IF IsErr(r) THEN "done" ELSE "reboot_check"

\* AvailabilityGate that skips every module
AvailabilityGate_skip_all(avail) == "skip"

\* AvailabilityGate with the availability check left out
AvailabilityGate_unchecked(avail) == "prompt"

\* execute_modules: `if !module.is_available() { skipped += 1; continue; }`
AvailabilityGate(avail) == IF ~avail THEN "skip" ELSE "prompt"

\* ConfirmGate with the operator's answer ignored
ConfirmGate_answer_ignored(r) == IF IsErr(r) THEN "propagate" ELSE "load"

\* ConfirmGate with a provider error read as a refusal (unwrap_or(false))
ConfirmGate_error_as_no(r) == IF r = OkBool(TRUE) THEN "load" ELSE "skip"

\* execute_modules: `if prompt_yes_no("Execute ..")? { .. } else { skipped += 1 }`
ConfirmGate(r) ==
    IF IsErr(r) THEN "propagate"
    ELSE IF r = OkBool(TRUE) THEN "load"
    ELSE "skip"

\* LoadOutcome that counts every load_module as completed
LoadOutcome_always_completed(r) == "completed"

\* LoadOutcome with the arms of the match swapped
LoadOutcome_swapped(r) == IF r = Ok THEN "failed" ELSE "completed"

\* execute_modules: `match manager.load_module(..).await { Ok(_) .. Err(e) .. }`
LoadOutcome(r) == IF r = Ok THEN "completed" ELSE "failed"

\* ContinueGate that stops whatever the operator answers
ContinueGate_always_break(r) == IF IsErr(r) THEN "propagate" ELSE "break"

\* ContinueGate that returns from execute_modules when the operator declines
ContinueGate_return_on_no(r) ==
    IF IsErr(r) THEN "propagate"
    ELSE IF r # OkBool(TRUE) THEN "propagate"
    ELSE "next"

\* ContinueGate that goes on whatever the operator answers
ContinueGate_never_break(r) == IF IsErr(r) THEN "propagate" ELSE "next"

\* execute_modules: `if !prompt_yes_no("Continue with remaining modules?")? { break; }`
ContinueGate(r) ==
    IF IsErr(r) THEN "propagate"
    ELSE IF r # OkBool(TRUE) THEN "break"
    ELSE "next"

\* NextIndex that stays at the list position (the module is tried again)
NextIndex_stay(k) == k

\* NextIndex that steps over a list position
NextIndex_skip_one(k) == k + 2

\* the for loop's step to the next list position
NextIndex(k) == k + 1

\* execute_modules: the lines of the summary
SummaryLines(c, f, s) ==
    <<<<"Completed", c>>>>
        \o (IF f > 0 THEN <<<<"Failed", f>>>> ELSE <<>>)
        \o (IF s > 0 THEN <<<<"Skipped", s>>>> ELSE <<>>)

\* SummaryReturn that reports a run with failures as an error
SummaryReturn_err_when_failed(c, f, s) ==
    IF f > 0 THEN module(<<"workflow failed">>) ELSE Ok

\* execute_modules: the value returned after the summary
SummaryReturn(c, f, s) == Ok

\* check_reboot_needed: `if prompt_yes_no("Reboot system now?", false)? { .. }`
RebootGate(r) ==
    IF IsErr(r) THEN "propagate"
    ELSE IF r = OkBool(TRUE) THEN "reboot"
    ELSE "postpone"

\* what load_module returns when it does not reach execute
LoadEarlyResult(g, m) ==
    CASE g = "lookup_err" -> get_module(m)
      [] g = "unavailable" -> module(<<"not available", m>>)
      [] g = "help" -> Ok

\* LoadReturn that reports every finished execute as a success
LoadReturn_errors_swallowed(r) == Ok

\* load_module's last expression: the value of execute is the value returned
LoadReturn(r) == r

\* the order in which ModuleManager::new inserts the modules into the map
RegistrationOrder ==
    <<"update", "network", "hostname", "user", "ssh", "firewall", "certs",
      "sysctl", "zsh", "motd", "netdata">>

\* the bytes of a registered module or workflow name, which str's cmp
\* compares
Bytes(n) ==
    CASE n = "update" -> <<117, 112, 100, 97, 116, 101>>
      [] n = "network" -> <<110, 101, 116, 119, 111, 114, 107>>
      [] n = "hostname" -> <<104, 111, 115, 116, 110, 97, 109, 101>>
      [] n = "user" -> <<117, 115, 101, 114>>
      [] n = "ssh" -> <<115, 115, 104>>
      [] n = "firewall" -> <<102, 105, 114, 101, 119, 97, 108, 108>>
      [] n = "certs" -> <<99, 101, 114, 116, 115>>
      [] n = "sysctl" -> <<115, 121, 115, 99, 116, 108>>
      [] n = "zsh" -> <<122, 115, 104>>
      [] n = "motd" -> <<109, 111, 116, 100>>
      [] n = "netdata" -> <<110, 101, 116, 100, 97, 116, 97>>
      [] n = "essential" -> <<101, 115, 115, 101, 110, 116, 105, 97, 108>>
      [] n = "complete" -> <<99, 111, 109, 112, 108, 101, 116, 101>>
      [] n = "security" -> <<115, 101, 99, 117, 114, 105, 116, 121>>
      [] n = "development" -> <<100, 101, 118, 101, 108, 111, 112, 109, 101, 110, 116>>
      [] n = "monitoring" -> <<109, 111, 110, 105, 116, 111, 114, 105, 110, 103>>

\* cmp of two byte strings: the first differing byte decides, a proper
\* prefix is Less
RECURSIVE cmp_bytes(_, _)
cmp_bytes(a, b) ==
    IF a = <<>> THEN (IF b = <<>> THEN "Equal" ELSE "Less")
    ELSE IF b = <<>> THEN "Greater"
    ELSE IF Head(a) < Head(b) THEN "Less"
    ELSE IF Head(a) > Head(b) THEN "Greater"
    ELSE cmp_bytes(Tail(a), Tail(b))

\* the comparator of discover_modules: |a, b| a.name.cmp(&b.name)
cmp(a, b) == cmp_bytes(Bytes(a.name), Bytes(b.name))

\* sort_by puts d after every element that is not greater (the sort is stable)
RECURSIVE sort_insert(_, _)
sort_insert(d, s) ==
    IF s = <<>> THEN <<d>>
    ELSE IF cmp(d, Head(s)) = "Less" THEN <<d>> \o s
    ELSE <<Head(s)>> \o sort_insert(d, Tail(s))

\* sort_by that leaves the descriptors as they were pushed
sort_by_nothing(s) == s

\* descriptors.sort_by(|a, b| a.name.cmp(&b.name))
RECURSIVE sort_by(_)
sort_by(s) ==
    IF s = <<>> THEN <<>>
    ELSE sort_insert(s[Len(s)], sort_by(SubSeq(s, 1, Len(s) - 1)))

\* the descriptor discover_modules pushes for module m: description and
\* version are read from the module's immutable info, available is asked of
\* the module at this call
ModuleDescriptor(m, probe) ==
    [name |-> m,
     description |-> <<"description", m>>,
     version |-> <<"version", m>>,
     available |-> is_available(m, probe)]

\* the loop of discover_modules over the map, in the map's iteration order
Descriptors(order, host) ==
    [k \in DOMAIN order |-> ModuleDescriptor(order[k], host[order[k]])]

\* discover_modules that returns the descriptors in the map's order
discover_modules_unsorted(order, host) == Descriptors(order, host)

\* ModuleManager::discover_modules
discover_modules(order, host) == sort_by(Descriptors(order, host))

----------------------------------------------------------------------------
(* Inputs *)

\* the module lists of a workflow, up to MaxLen names
Lists == UNION {[1..n -> ModuleNames] : n \in 0..MaxLen}

\* the errors a module's execute returns
ExecErrors == {command_failed(<<"execute">>), system(<<"execute">>)}

\* what a module's execute returns
ExecResults == {Ok} \cup ExecErrors

\* what execute_reboot returns
RebootResults == {Ok, command_failed(<<"reboot">>)}

\* the longest argument list load_module is called with
MaxArgs == 2

\* the most discover_modules (or list_workflows) calls made on one manager
MaxCalls == 2

\* the arguments: the two help flags and one that is not a help flag
ArgTokens == {"--help", "-h", "--dry-run"}

\* the argument lists of a load_module call
ArgLists == UNION {[1..n -> ArgTokens] : n \in 0..MaxArgs}

\* the names load_module is called with: every registered module and one
\* name that no module registers
LoadNames == Registry \cup {"timezone"}

\* s rotated left by r places
Rotate(s, r) == [k \in DOMAIN s |-> s[((k - 1 + r) % Len(s)) + 1]]

\* s backwards
Reverse(s) == [k \in DOMAIN s |-> s[Len(s) + 1 - k]]

\* the orders a HashMap may iterate its keys in: the rotations of the
\* registration order and its reverse
IterationOrders ==
    {Rotate(RegistrationOrder, r) : r \in 0..(Len(RegistrationOrder) - 1)}
        \cup {Reverse(RegistrationOrder)}

\* the host as the modules' is_available probes see it: what the probe of
\* motd (the directory /etc/update-motd.d) finds, and what every other probe
\* finds
Hosts ==
    {[m \in Registry |-> IF m = "motd" THEN a ELSE b] : a, b \in BOOLEAN}

\* HashMap::new
EmptyMap == [k \in {} |-> k]

\* GeneralConfig::default and Config::default, the fields Config::set writes;
\* a String is the sequence of its characters, an Option is <<>> for None
\* and <<v>> for Some(v)
Config_default ==
    [default_ssh_port |-> 22,
     default_admin_user |-> <<"f", "l", "u", "x", "a", "d", "m", "i", "n">>,
     github_user |-> <<>>,
     log_level |-> <<"i", "n", "f", "o">>,
     colored_output |-> TRUE,
     custom |-> EmptyMap]

\* no list_workflows, Config::set or registration has happened
ExtIdle ==
    /\ listed = <<>>
    /\ config = Config_default
    /\ setCalls = <<>>
    /\ allModules = <<>>
    /\ registry = EmptyMap

----------------------------------------------------------------------------
(* The state machine *)

Init ==
    /\ name \in RequestNames
    /\ modules \in Lists
    /\ pc = "wf_lookup"
    /\ i = 1
    /\ completed = 0
    /\ failed = 0
    /\ skipped = 0
    /\ trace = <<>>
    /\ summaries = <<>>
    /\ emResult = NoResult
    /\ result = NoResult
    /\ loadArgs = WorkflowArgs
    /\ execArgs = <<>>
    /\ discovered = <<>>
    /\ plan = <<>>
    /\ ExtIdle

\* execute_workflow: the lookup of the workflow and the printed plan
WfLookup ==
    /\ pc = "wf_lookup"
    /\ LET w == get_workflow(name) IN
        IF IsErr(w)
        THEN /\ pc' = "done"
             /\ result' = w
             /\ trace' = trace
        ELSE /\ pc' = "wf_confirm"
             /\ result' = result
             /\ trace' = Append(trace, Ev("plan", 0, "ok"))
    /\ plan' = (IF IsErr(get_workflow(name)) THEN plan ELSE modules)
    /\ UNCHANGED <<extVars, mgrVars, name, modules, i, completed, failed, skipped, summaries,
                   emResult>>

\* execute_workflow: "Continue with workflow execution?"
WfConfirm ==
    /\ pc = "wf_confirm"
    /\ \E outcome \in ProviderOutcomes :
        LET r == prompt_yes_no(outcome)
            d == WorkflowGate(r)
        IN  /\ trace' = Append(trace, Ev("prompt_workflow", 0, outcome))
            /\ CASE d = "propagate" -> pc' = "done" /\ result' = r
                 [] d = "cancel" -> pc' = "done" /\ result' = Ok
                 [] d = "execute" -> pc' = "loop" /\ result' = result
    /\ UNCHANGED <<extVars, plan, mgrVars, name, modules, i, completed, failed, skipped, summaries,
                   emResult>>

\* execute_modules: the head of one iteration, get_module and is_available
ModuleStep ==
    /\ pc = "loop"
    /\ i <= Len(modules)
    /\ LET m == modules[i]
           g == get_module(m)
       IN  IF IsErr(g)
           THEN /\ trace' = Append(trace, Ev("get_module", i, "err"))
                /\ pc' = "done"
                /\ emResult' = g
                /\ result' = g
                /\ UNCHANGED <<i, skipped>>
           ELSE \E probe \in BOOLEAN :
                LET a == is_available(m, probe)
                    d == AvailabilityGate(a)
                IN  /\ trace' = trace \o <<Ev("get_module", i, "ok"),
                                           Ev("is_available", i, BoolStr(a))>>
                    /\ CASE d = "skip" ->
                              /\ skipped' = skipped + 1
                              /\ i' = NextIndex(i)
                              /\ pc' = "loop"
                         [] d = "prompt" ->
                              /\ skipped' = skipped
                              /\ i' = i
                              /\ pc' = "prompt_execute"
                    /\ UNCHANGED <<emResult, result>>
    /\ UNCHANGED <<extVars, plan, mgrVars, name, modules, completed, failed, summaries>>

\* execute_modules: "Execute <name> module?"
PromptExecute ==
    /\ pc = "prompt_execute"
    /\ \E outcome \in ProviderOutcomes :
        LET r == prompt_yes_no(outcome)
            d == ConfirmGate(r)
        IN  /\ trace' = Append(trace, Ev("prompt_execute", i, outcome))
            /\ CASE d = "propagate" ->
                      /\ pc' = "done"
                      /\ emResult' = r
                      /\ result' = r
                      /\ UNCHANGED <<i, skipped>>
                 [] d = "skip" ->
                      /\ skipped' = skipped + 1
                      /\ i' = NextIndex(i)
                      /\ pc' = "loop"
                      /\ UNCHANGED <<emResult, result>>
                 [] d = "load" ->
                      /\ pc' = "load_module"
                      /\ UNCHANGED <<i, skipped, emResult, result>>
    /\ UNCHANGED <<extVars, plan, mgrVars, name, modules, completed, failed, summaries>>

\* execute_modules: the arms of the match on load_module's result
Settle(r, tr) ==
    LET d == LoadOutcome(r) IN
    /\ trace' = tr
    /\ CASE d = "completed" ->
              /\ completed' = completed + 1
              /\ failed' = failed
              /\ i' = NextIndex(i)
              /\ pc' = "loop"
         [] d = "failed" ->
              /\ failed' = failed + 1
              /\ completed' = completed
              /\ i' = i
              /\ pc' = "prompt_continue"
    /\ UNCHANGED <<extVars, plan, mgrVars, name, modules, skipped, summaries, emResult, result>>

\* load_module: lookup, availability and help flag, up to the call of execute
LoadModule ==
    /\ pc = "load_module"
    /\ \E probe \in BOOLEAN :
        LET m == modules[i]
            a == IF IsErr(get_module(m)) THEN FALSE ELSE is_available(m, probe)
            g == LoadGate(m, a, WorkflowArgs)
            tr == Append(trace, Ev("load_is_available", i, BoolStr(a)))
        IN  IF g = "execute"
            THEN /\ trace' = Append(tr, Ev("execute", i, "begin"))
                 /\ pc' = "executing"
                 /\ UNCHANGED <<extVars, plan, mgrVars, name, modules, i, completed, failed, skipped,
                                summaries, emResult, result>>
            ELSE Settle(LoadEarlyResult(g, m), tr)

\* the module's execute returns to load_module, and load_module to the loop
ExecuteReturns ==
    /\ pc = "executing"
    /\ \E r \in ExecResults :
        Settle(LoadReturn(r),
               Append(trace, Ev("execute_returned", i, ResStr(r))))

\* execute_modules: "Continue with remaining modules?"
PromptContinue ==
    /\ pc = "prompt_continue"
    /\ \E outcome \in ProviderOutcomes :
        LET r == prompt_yes_no(outcome)
            d == ContinueGate(r)
        IN  /\ trace' = Append(trace, Ev("prompt_continue", i, outcome))
            /\ CASE d = "propagate" ->
                      /\ pc' = "done"
                      /\ emResult' = r
                      /\ result' = r
                      /\ i' = i
                 [] d = "break" ->
                      /\ pc' = "summary"
                      /\ i' = i
                      /\ UNCHANGED <<emResult, result>>
                 [] d = "next" ->
                      /\ pc' = "loop"
                      /\ i' = NextIndex(i)
                      /\ UNCHANGED <<emResult, result>>
    /\ UNCHANGED <<extVars, plan, mgrVars, name, modules, completed, failed, skipped, summaries>>

\* execute_modules: the summary and the return
Summary ==
    /\ \/ pc = "summary"
       \/ pc = "loop" /\ i > Len(modules)
    /\ summaries' = Append(summaries, SummaryLines(completed, failed, skipped))
    /\ trace' = Append(trace, Ev("summary", 0, "ok"))
    /\ emResult' = SummaryReturn(completed, failed, skipped)
    /\ pc' = AfterExecutor(emResult')
    /\ result' = IF pc' = "done" THEN emResult' ELSE result
    /\ UNCHANGED <<extVars, plan, mgrVars, name, modules, i, completed, failed, skipped>>

\* check_reboot_needed: is_reboot_required
RebootCheck ==
    /\ pc = "reboot_check"
    /\ \E required \in BOOLEAN :
        /\ trace' = Append(trace, Ev("check_reboot_needed", 0, BoolStr(required)))
        /\ IF required
           THEN pc' = "prompt_reboot" /\ result' = result
           ELSE pc' = "done" /\ result' = Ok
    /\ UNCHANGED <<extVars, plan, mgrVars, name, modules, i, completed, failed, skipped, summaries,
                   emResult>>

\* check_reboot_needed: "Reboot system now?" and execute_reboot
PromptReboot ==
    /\ pc = "prompt_reboot"
    /\ \E outcome \in ProviderOutcomes, rb \in RebootResults :
        LET r == prompt_yes_no(outcome)
            d == RebootGate(r)
        IN  /\ trace' = Append(trace, Ev("prompt_reboot", 0, outcome))
            /\ result' = CASE d = "propagate" -> r
                           [] d = "reboot" -> rb
                           [] d = "postpone" -> Ok
    /\ pc' = "done"
    /\ UNCHANGED <<extVars, plan, mgrVars, name, modules, i, completed, failed, skipped, summaries,
                   emResult>>

Next ==
    \/ WfLookup
    \/ WfConfirm
    \/ ModuleStep
    \/ PromptExecute
    \/ LoadModule
    \/ ExecuteReturns
    \/ PromptContinue
    \/ Summary
    \/ RebootCheck
    \/ PromptReboot

Spec == Init /\ [][Next]_vars

\* a run in which every prompt and every execute that is waited for returns,
\* and the code between them goes on
FairSpec == Spec /\ WF_vars(Next)

----------------------------------------------------------------------------
(* The ModuleManager called from the command line *)

InitManager ==
    /\ modules = <<>>
    /\ i = 1
    /\ completed = 0
    /\ failed = 0
    /\ skipped = 0
    /\ trace = <<>>
    /\ summaries = <<>>
    /\ emResult = NoResult
    /\ result = NoResult
    /\ execArgs = <<>>
    /\ discovered = <<>>
    /\ plan = <<>>
    /\ ExtIdle
    /\ \/ /\ pc = "cli_load"
          /\ name \in LoadNames
          /\ loadArgs \in ArgLists
       \/ /\ pc = "cli_list"
          /\ name = ""
          /\ loadArgs = <<>>

\* Commands::Load: load_module(name, args) up to the call of execute
CliLoadModule ==
    /\ pc = "cli_load"
    /\ \E probe \in BOOLEAN :
        LET found == ~IsErr(get_module(name))
            avail == found /\ is_available(name, probe)
            g == LoadGate(name, avail, loadArgs)
            looked == <<Ev("get_module", 0, ResStr(get_module(name)))>>
            asked == IF found THEN <<Ev("is_available", 0, BoolStr(avail))>>
                     ELSE <<>>
        IN  CASE g = "execute" ->
                   /\ trace' = trace \o looked \o asked
                                  \o <<Ev("execute", 0, "begin")>>
                   /\ execArgs' = Append(execArgs, loadArgs)
                   /\ pc' = "cli_executing"
                   /\ result' = result
              [] g = "help" ->
                   /\ trace' = trace \o looked \o asked
                                  \o <<Ev("help", 0, "printed")>>
                   /\ execArgs' = execArgs
                   /\ pc' = "done"
                   /\ result' = LoadEarlyResult(g, name)
              [] OTHER ->
                   /\ trace' = trace \o looked \o asked
                   /\ execArgs' = execArgs
                   /\ pc' = "done"
                   /\ result' = LoadEarlyResult(g, name)
    /\ UNCHANGED <<extVars, plan, name, modules, i, completed, failed, skipped, summaries,
                   emResult, loadArgs, discovered>>

\* load_module: the module's execute returns and load_module returns its value
CliExecuteReturns ==
    /\ pc = "cli_executing"
    /\ \E r \in ExecResults :
        /\ trace' = Append(trace, Ev("execute_returned", 0, r.kind))
        /\ result' = LoadReturn(r)
    /\ pc' = "done"
    /\ UNCHANGED <<extVars, plan, name, modules, i, completed, failed, skipped, summaries,
                   emResult, mgrVars>>

\* Commands::List: one call of discover_modules; the manager stays as it is
CliDiscoverModules ==
    /\ pc = "cli_list"
    /\ Len(discovered) < MaxCalls
    /\ \E order \in IterationOrders, host \in Hosts :
        /\ discovered' = Append(discovered,
               [result |-> discover_modules(order, host), host |-> host])
        /\ trace' = Append(trace, Ev("discover_modules", 0, "ok"))
    /\ UNCHANGED <<extVars, plan, name, modules, pc, i, completed, failed, skipped, summaries,
                   emResult, result, loadArgs, execArgs>>

NextManager ==
    \/ CliLoadModule
    \/ CliExecuteReturns
    \/ CliDiscoverModules

SpecManager == InitManager /\ [][NextManager]_vars

----------------------------------------------------------------------------
(* The built-in workflows of WorkflowManager::new *)

\* the order in which WorkflowManager::new inserts the workflows
WorkflowRegistrationOrder ==
    <<"essential", "complete", "security", "development", "monitoring">>

\* Workflow::description of each registered workflow
Workflow_description(w) ==
    CASE w = "essential" ->
           "Basic system setup including hostname, network, timezone, updates, certificates, system hardening, and SSH configuration"
      [] w = "complete" ->
           "Complete system provisioning with all modules (updates, network, security, user tools)"
      [] w = "development" ->
           "Development environment setup: user creation, ZSH, and development tools"
      [] w = "security" -> "Firewall, SSH, sysctl hardening"
      [] w = "monitoring" -> "Install Netdata and exporters"

\* the workflows whose impl of Workflow defines modules() and builds a
\* BaseWorkflow in execute; security and monitoring define neither
DefinesModules == {"essential", "complete", "development"}

\* Workflow::modules of each workflow that defines it
Workflow_modules(w) ==
    CASE w = "essential" ->
           <<"hostname", "network", "timezone", "update", "certs", "sysctl",
             "ssh">>
      [] w = "complete" ->
           <<"update", "hostname", "network", "firewall", "ssh", "sysctl",
             "certs", "user", "zsh", "motd", "netdata">>
      [] w = "development" -> <<"user", "zsh", "certs">>

\* Workflow::execute: the list handed to BaseWorkflow::new, which
\* execute_modules iterates
ExecuteList(w) ==
    CASE w = "essential" ->
           <<"hostname", "network", "timezone", "update", "certs", "sysctl",
             "ssh">>
      [] w = "complete" ->
           <<"update", "hostname", "network", "firewall", "ssh", "sysctl",
             "certs", "user", "zsh", "motd", "netdata">>
      [] w = "development" -> <<"user", "zsh", "certs">>

\* the comparator of list_workflows: |a, b| a.0.cmp(b.0)
cmp_pair(a, b) == cmp_bytes(Bytes(a[1]), Bytes(b[1]))

\* sort_by of list_workflows puts d after every pair that is not greater
RECURSIVE sort_pairs_insert(_, _)
sort_pairs_insert(d, s) ==
    IF s = <<>> THEN <<d>>
    ELSE IF cmp_pair(d, Head(s)) = "Less" THEN <<d>> \o s
    ELSE <<Head(s)>> \o sort_pairs_insert(d, Tail(s))

\* workflows.sort_by(|a, b| a.0.cmp(b.0))
RECURSIVE sort_pairs(_)
sort_pairs(s) ==
    IF s = <<>> THEN <<>>
    ELSE sort_pairs_insert(s[Len(s)], sort_pairs(SubSeq(s, 1, Len(s) - 1)))

\* the pairs list_workflows collects, in the map's iteration order
Pairs(order) ==
    [k \in DOMAIN order |-> <<order[k], Workflow_description(order[k])>>]

\* list_workflows that returns the pairs in the map's order
list_workflows_unsorted(order) == Pairs(order)

\* WorkflowManager::list_workflows
list_workflows(order) == sort_pairs(Pairs(order))

\* the orders the workflows map may iterate in
WorkflowIterationOrders ==
    {Rotate(WorkflowRegistrationOrder, r) :
        r \in 0..(Len(WorkflowRegistrationOrder) - 1)}
        \cup {Reverse(WorkflowRegistrationOrder)}

\* the built-in workflows whose runs are explored step by step: the two with
\* the shortest runs (essential stops at its third name); the lists of
\* complete are compared as values
BuiltinRuns == {"essential", "development"}

InitBuiltin ==
    /\ modules = <<>>
    /\ i = 1
    /\ completed = 0
    /\ failed = 0
    /\ skipped = 0
    /\ trace = <<>>
    /\ summaries = <<>>
    /\ emResult = NoResult
    /\ result = NoResult
    /\ loadArgs = WorkflowArgs
    /\ execArgs = <<>>
    /\ discovered = <<>>
    /\ plan = <<>>
    /\ ExtIdle
    /\ \/ /\ pc = "wf_lookup"
          /\ name \in BuiltinRuns
       \/ /\ pc = "cli_workflows"
          /\ name = ""

\* execute_workflow on a built-in workflow: the lookup and the plan printed
\* from Workflow::modules
BuiltinLookup ==
    /\ pc = "wf_lookup"
    /\ LET w == get_workflow(name) IN
        IF IsErr(w)
        THEN /\ pc' = "done"
             /\ result' = w
             /\ trace' = trace
             /\ plan' = plan
        ELSE /\ pc' = "wf_confirm"
             /\ result' = result
             /\ trace' = Append(trace, Ev("plan", 0, "ok"))
             /\ plan' = Workflow_modules(name)
    /\ UNCHANGED <<extVars, mgrVars, name, modules, i, completed, failed,
                   skipped, summaries, emResult>>

\* execute_workflow on a built-in workflow: the overall confirmation, and
\* Workflow::execute building the BaseWorkflow whose list is iterated
BuiltinConfirm ==
    /\ pc = "wf_confirm"
    /\ name \in DefinesModules
    /\ \E outcome \in ProviderOutcomes :
        LET r == prompt_yes_no(outcome)
            d == WorkflowGate(r)
        IN  /\ trace' = Append(trace, Ev("prompt_workflow", 0, outcome))
            /\ CASE d = "propagate" ->
                      pc' = "done" /\ result' = r /\ modules' = modules
                 [] d = "cancel" ->
                      pc' = "done" /\ result' = Ok /\ modules' = modules
                 [] d = "execute" ->
                      /\ pc' = "loop"
                      /\ result' = result
                      /\ modules' = ExecuteList(name)
    /\ UNCHANGED <<extVars, plan, mgrVars, name, i, completed, failed, skipped,
                   summaries, emResult>>

\* one call of list_workflows; the manager stays as it is
ListWorkflows ==
    /\ pc = "cli_workflows"
    /\ Len(listed) < MaxCalls
    /\ \E order \in WorkflowIterationOrders :
        listed' = Append(listed, list_workflows(order))
    /\ UNCHANGED <<name, modules, pc, i, completed, failed, skipped, trace,
                   summaries, emResult, result, mgrVars, plan, config, setCalls,
                   allModules, registry>>

NextBuiltin ==
    \/ BuiltinLookup
    \/ BuiltinConfirm
    \/ ModuleStep
    \/ PromptExecute
    \/ LoadModule
    \/ ExecuteReturns
    \/ PromptContinue
    \/ Summary
    \/ RebootCheck
    \/ PromptReboot
    \/ ListWorkflows

SpecBuiltin == InitBuiltin /\ [][NextBuiltin]_vars

----------------------------------------------------------------------------
(* Config::set *)

\* the longest sequence of Config::set calls on one Config
MaxSets == 2

\* the keys Config::set is called with: the five it matches and one that is
\* stored in custom
ConfigKeys ==
    {"default_ssh_port", "default_admin_user", "github_user", "log_level",
     "colored_output", "editor"}

\* the values Config::set is called with, as character sequences
ConfigValues ==
    {<<"2", "2", "2", "2">>, <<"+", "8", "0">>, <<"6", "5", "5", "3", "6">>, <<"i", "n", "v", "a", "l", "i", "d">>,
     <<"t", "r", "u", "e">>, <<"f", "a", "l", "s", "e">>, <<>>}

\* the value of a decimal digit, -1 for any other character
DigitVal(c) ==
    CASE c = "0" -> 0 [] c = "1" -> 1 [] c = "2" -> 2 [] c = "3" -> 3
      [] c = "4" -> 4 [] c = "5" -> 5 [] c = "6" -> 6 [] c = "7" -> 7
      [] c = "8" -> 8 [] c = "9" -> 9 [] OTHER -> -1

\* the digits loop of str::parse::<u16>: acc is the number read so far; a
\* character that is no digit and a number above u16::MAX are errors
RECURSIVE parse_digits(_, _)
parse_digits(v, acc) ==
    IF v = <<>> THEN [ok |-> TRUE, val |-> acc]
    ELSE IF DigitVal(Head(v)) < 0 THEN [ok |-> FALSE, val |-> 0]
    ELSE IF acc * 10 + DigitVal(Head(v)) >= 2^16 THEN [ok |-> FALSE, val |-> 0]
    ELSE parse_digits(Tail(v), acc * 10 + DigitVal(Head(v)))

\* value.parse() to u16: empty and a lone sign are errors, one leading "+"
\* is dropped, then come the digits
parse_u16(v) ==
    IF v = <<>> \/ v = <<"+">> \/ v = <<"-">> THEN [ok |-> FALSE, val |-> 0]
    ELSE IF Head(v) = "+" THEN parse_digits(Tail(v), 0)
    ELSE parse_digits(v, 0)

\* value.parse() to bool: exactly "true" and "false" parse
parse_bool(v) ==
    IF v = <<"t", "r", "u", "e">> THEN [ok |-> TRUE, val |-> TRUE]
    ELSE IF v = <<"f", "a", "l", "s", "e">> THEN [ok |-> TRUE, val |-> FALSE]
    ELSE [ok |-> FALSE, val |-> FALSE]

\* HashMap::insert: the entry of key k is v, whether or not k had one
insert(map, k, v) ==
    [x \in DOMAIN map \cup {k} |-> IF x = k THEN v ELSE map[x]]

\* Config::set that stores the fallback 0 / false when the value does not
\* parse, and then reports the error
Config_set_stores_before_validating(c, key, value) ==
    CASE key = "default_ssh_port" ->
           IF parse_u16(value).ok
           THEN [config |-> [c EXCEPT !.default_ssh_port = parse_u16(value).val],
                 result |-> Ok]
           ELSE [config |-> [c EXCEPT !.default_ssh_port = 0],
                 result |-> validation(<<"Invalid port number">>)]
      [] key = "colored_output" ->
           IF parse_bool(value).ok
           THEN [config |-> [c EXCEPT !.colored_output = parse_bool(value).val],
                 result |-> Ok]
           ELSE [config |-> [c EXCEPT !.colored_output = FALSE],
                 result |-> validation(<<"Invalid boolean value">>)]
      [] OTHER -> [config |-> [c EXCEPT !.custom = insert(c.custom, key, value)],
                   result |-> Ok]

\* Config::set: the Config after the call and the value returned
Config_set(c, key, value) ==
    CASE key = "default_ssh_port" ->
           IF parse_u16(value).ok
           THEN [config |-> [c EXCEPT !.default_ssh_port = parse_u16(value).val],
                 result |-> Ok]
           ELSE [config |-> c,
                 result |-> validation(<<"Invalid port number">>)]
      [] key = "default_admin_user" ->
           [config |-> [c EXCEPT !.default_admin_user = value], result |-> Ok]
      [] key = "github_user" ->
           [config |-> [c EXCEPT !.github_user = <<value>>], result |-> Ok]
      [] key = "log_level" ->
           [config |-> [c EXCEPT !.log_level = value], result |-> Ok]
      [] key = "colored_output" ->
           IF parse_bool(value).ok
           THEN [config |-> [c EXCEPT !.colored_output = parse_bool(value).val],
                 result |-> Ok]
           ELSE [config |-> c,
                 result |-> validation(<<"Invalid boolean value">>)]
      [] OTHER ->
           [config |-> [c EXCEPT !.custom = insert(c.custom, key, value)],
            result |-> Ok]

InitConfig ==
    /\ name = ""
    /\ modules = <<>>
    /\ pc = "config"
    /\ i = 1
    /\ completed = 0
    /\ failed = 0
    /\ skipped = 0
    /\ trace = <<>>
    /\ summaries = <<>>
    /\ emResult = NoResult
    /\ result = NoResult
    /\ loadArgs = WorkflowArgs
    /\ execArgs = <<>>
    /\ discovered = <<>>
    /\ plan = <<>>
    /\ ExtIdle

\* one call of Config::set on the Config
ConfigSet ==
    /\ pc = "config"
    /\ Len(setCalls) < MaxSets
    /\ \E key \in ConfigKeys, value \in ConfigValues :
        LET r == Config_set(config, key, value) IN
        /\ config' = r.config
        /\ setCalls' = Append(setCalls,
               [key |-> key, value |-> value, result |-> r.result,
                before |-> config, after |-> r.config])
    /\ UNCHANGED <<name, modules, pc, i, completed, failed, skipped, trace,
                   summaries, emResult, result, mgrVars, plan, listed,
                   allModules, registry>>

NextConfig == ConfigSet

SpecConfig == InitConfig /\ [][NextConfig]_vars

----------------------------------------------------------------------------
(* ModuleManager::new: the registration of the modules *)

\* the longest vector of modules registered, apart from the built-in one
MaxModules == 3

\* a module: what its name() returns and which implementation it is
Module(n, t) == [name |-> n, impl |-> t]

\* the names and implementations the registered vectors are drawn from
PoolNames == {"ssh", "motd"}
PoolImpls == {"A", "B"}
ModulePool == {Module(n, t) : n \in PoolNames, t \in PoolImpls}

\* all_modules of ModuleManager::new: the eleven built-in modules
BuiltinModules == [k \in DOMAIN RegistrationOrder |-> Module(RegistrationOrder[k], "A")]

\* the vectors handed to the registration loop: the built-in one and every
\* vector of up to MaxModules modules of the pool, same names included
ModuleVectors ==
    {BuiltinModules} \cup UNION {[1..n -> ModulePool] : n \in 0..MaxModules}

\* the names get_module is asked for after the registration
LookupNames == PoolNames \cup {"update", "timezone"}

\* registration that keeps the module a name already has
register_keep_first(map, mod) ==
    IF mod.name \in DOMAIN map THEN map ELSE insert(map, mod.name, mod)

\* modules.insert(module.name().to_string(), module)
register(map, mod) == insert(map, mod.name, mod)

\* Ok(&module) of get_module
Found(mod) == [kind |-> "Ok", msg |-> <<mod.name, mod.impl>>]

\* get_module on the map that new built
get_module_in(map, n) ==
    IF n \in DOMAIN map THEN Found(map[n]) ELSE module(<<"not found", n>>)

InitRegistry ==
    /\ name \in LookupNames
    /\ modules = <<>>
    /\ pc = "registering"
    /\ i = 1
    /\ completed = 0
    /\ failed = 0
    /\ skipped = 0
    /\ trace = <<>>
    /\ summaries = <<>>
    /\ emResult = NoResult
    /\ result = NoResult
    /\ loadArgs = WorkflowArgs
    /\ execArgs = <<>>
    /\ discovered = <<>>
    /\ plan = <<>>
    /\ listed = <<>>
    /\ config = Config_default
    /\ setCalls = <<>>
    /\ allModules \in ModuleVectors
    /\ registry = EmptyMap

\* ModuleManager::new: one iteration of `for module in all_modules`
Register ==
    /\ pc = "registering"
    /\ i <= Len(allModules)
    /\ registry' = register(registry, allModules[i])
    /\ i' = i + 1
    /\ UNCHANGED <<name, modules, pc, completed, failed, skipped, trace,
                   summaries, emResult, result, mgrVars, plan, listed, config,
                   setCalls, allModules>>

\* ModuleManager::new: the loop is over, Ok(Self { modules })
Registered ==
    /\ pc = "registering"
    /\ i > Len(allModules)
    /\ pc' = "registered"
    /\ emResult' = Ok
    /\ UNCHANGED <<name, modules, i, completed, failed, skipped, trace,
                   summaries, result, mgrVars, plan, extVars>>

\* get_module(name) on the manager that new returned
Lookup ==
    /\ pc = "registered"
    /\ result' = get_module_in(registry, name)
    /\ pc' = "done"
    /\ UNCHANGED <<name, modules, i, completed, failed, skipped, trace,
                   summaries, emResult, mgrVars, plan, extVars>>

NextRegistry ==
    \/ Register
    \/ Registered
    \/ Lookup

SpecRegistry == InitRegistry /\ [][NextRegistry]_vars

----------------------------------------------------------------------------
(* Reading the history *)

N == Len(modules)

\* an event e of list position k with value v was recorded
HasEv(e, k, v) == \E j \in DOMAIN trace : trace[j] = Ev(e, k, v)

\* how many events e list position k has
Count(e, k) ==
    Cardinality({j \in DOMAIN trace : trace[j].ev = e /\ trace[j].idx = k})

\* the event the step appends last
Appended(e) ==
    /\ Len(trace') > Len(trace)
    /\ trace'[Len(trace')].ev = e.ev
    /\ trace'[Len(trace')].idx = e.idx
    /\ trace'[Len(trace')].val = e.val

\* the list positions at which execute was called, in call order
ExecutedOrder ==
    LET calls == SelectSeq(trace, LAMBDA e : e.ev = "execute")
    IN  [j \in DOMAIN calls |-> calls[j].idx]

\* every module-level call of the run so far went well: found, available,
\* confirmed, executed without error
HappyRun ==
    \A j \in DOMAIN trace :
        trace[j].idx >= 1 => trace[j].val \in {"ok", "true", "yes", "begin"}

\* the operator stopped the run at position k after a failure
StoppedAt(k) == HasEv("prompt_continue", k, "no")

\* a prompt of the workflow run (not the reboot prompt) answered with an error
PromptEvents == {"prompt_workflow", "prompt_execute", "prompt_continue"}

CountersUnchanged ==
    completed' = completed /\ failed' = failed /\ skipped' = skipped

----------------------------------------------------------------------------
(* C1 *)

\* C1: a run over n registered, available modules in which every prompt is
\* confirmed and no execute fails ends with completed = n, failed = 0,
\* skipped = 0 (and prints that summary), and execute was called exactly once
\* per list position, in list order.
C1_AllCompletedInOrder ==
    (emResult = Ok /\ HappyRun) =>
        /\ completed = N /\ failed = 0 /\ skipped = 0
        /\ summaries = <<SummaryLines(N, 0, 0)>>
        /\ ExecutedOrder = [k \in 1..N |-> k]

C1_Witness ==
    emResult = Ok /\ HappyRun /\ N = 3 /\ Count("execute_returned", 3) = 1

----------------------------------------------------------------------------
(* C2 *)

\* C2: a registered module found unavailable at the executor's check is
\* never prompted for and never executed; that step adds exactly 1 to
\* skipped, leaves completed and failed alone, and moves the loop to the next
\* list position.
C2_UnavailableSkipped ==
    /\ [](\A k \in 1..N :
            HasEv("is_available", k, "false") =>
                /\ Count("prompt_execute", k) = 0
                /\ Count("load_is_available", k) = 0
                /\ Count("execute", k) = 0
                /\ Count("prompt_continue", k) = 0)
    /\ [][Appended(Ev("is_available", i, "false")) =>
            /\ skipped' = skipped + 1
            /\ completed' = completed
            /\ failed' = failed
            /\ i' = i + 1
            /\ pc' = "loop"
            /\ result' = result]_vars

C2_Witness ==
    /\ N = 3
    /\ HasEv("execute_returned", 1, "ok")
    /\ HasEv("is_available", 2, "false")
    /\ HasEv("execute_returned", 3, "ok")
    /\ completed = 2 /\ failed = 0 /\ skipped = 1
    /\ emResult = Ok

----------------------------------------------------------------------------
(* C3 *)

\* C3: declining the per-module prompt of an available module adds exactly 1
\* to skipped, leaves failed and completed alone, never calls execute, shows
\* no "Continue with remaining modules?" prompt and moves to the next list
\* position.
C3_DeclinedSkipped ==
    /\ [](\A k \in 1..N :
            HasEv("prompt_execute", k, "no") =>
                /\ Count("load_is_available", k) = 0
                /\ Count("execute", k) = 0
                /\ Count("prompt_continue", k) = 0)
    /\ [][Appended(Ev("prompt_execute", i, "no")) =>
            /\ skipped' = skipped + 1
            /\ completed' = completed
            /\ failed' = failed
            /\ i' = i + 1
            /\ pc' = "loop"
            /\ result' = result]_vars

C3_Witness ==
    /\ HasEv("is_available", 1, "true")
    /\ HasEv("prompt_execute", 1, "no")
    /\ HasEv("get_module", 2, "ok")
    /\ skipped = 1 /\ failed = 0 /\ completed = 0

----------------------------------------------------------------------------
(* C4 *)

\* C4: when a confirmed module's execute returns an error, failed grows by
\* exactly 1; when the operator then answers yes, the loop goes on to the next
\* position with the counters as they are, every remaining position is
\* visited, and every position found available (at both checks) and confirmed
\* has execute called exactly once.
C4_FailureThenContinue ==
    /\ [][Appended(Ev("execute_returned", i, "err")) =>
            /\ failed' = failed + 1
            /\ completed' = completed
            /\ skipped' = skipped
            /\ pc' = "prompt_continue"]_vars
    /\ [][Appended(Ev("prompt_continue", i, "yes")) =>
            /\ CountersUnchanged
            /\ i' = i + 1
            /\ pc' = "loop"
            /\ result' = result]_vars
    /\ [](\A k \in 1..N :
            /\ (/\ HasEv("is_available", k, "true")
                /\ HasEv("prompt_execute", k, "yes")
                /\ HasEv("load_is_available", k, "true"))
               => Count("execute", k) = 1
            /\ (emResult = Ok /\ ~(\E q \in 1..N : StoppedAt(q)))
               => Count("get_module", k) = 1)

C4_Witness ==
    /\ N = 3
    /\ HasEv("execute_returned", 1, "ok")
    /\ HasEv("execute_returned", 2, "err")
    /\ HasEv("prompt_continue", 2, "yes")
    /\ HasEv("execute_returned", 3, "ok")
    /\ Count("execute", 3) = 1
    /\ completed = 2 /\ failed = 1 /\ skipped = 0
    /\ emResult = Ok

----------------------------------------------------------------------------
(* C5 *)

\* C5: when the operator answers no to "Continue with remaining modules?"
\* after a failure at position k, the loop stops there: the counters keep the
\* values they had after counting the failure, no later position is looked
\* up, checked, prompted or executed, and the later positions are counted in
\* no counter.
C5_StopAfterFailure ==
    /\ [](\A k \in 1..N :
            StoppedAt(k) =>
                /\ \A j \in DOMAIN trace : trace[j].idx <= k
                /\ completed + failed + skipped = k
                /\ pc \in {"summary", "reboot_check", "prompt_reboot", "done"}
                /\ summaries # <<>> =>
                       summaries = <<SummaryLines(completed, failed, skipped)>>)
    /\ [][Appended(Ev("prompt_continue", i, "no")) =>
            /\ CountersUnchanged
            /\ i' = i
            /\ pc' = "summary"]_vars
    /\ [][(pc \in {"summary", "reboot_check", "prompt_reboot", "done"}) =>
            CountersUnchanged]_vars

C5_Witness ==
    /\ N = 3
    /\ HasEv("execute_returned", 1, "ok")
    /\ HasEv("execute_returned", 2, "err")
    /\ StoppedAt(2)
    /\ completed = 1 /\ failed = 1 /\ skipped = 0
    /\ emResult = Ok

----------------------------------------------------------------------------
(* C6 *)

\* a module lookup of the run failed: the list names an unregistered module
LookupFailed == \E k \in 1..N : HasEv("get_module", k, "err")

\* C6: when the list contains a name absent from the Module Registry, the run
\* returns a NotFound error and no summary is produced.
C6_MissingModuleIsNotFound ==
    LookupFailed =>
        /\ pc = "done"
        /\ result.kind = "NotFound"
        /\ summaries = <<>>

\* the part of C6 the code keeps: the run ends with the lookup's error and
\* without a summary
C6_MissingModuleAborts ==
    LookupFailed =>
        /\ pc = "done"
        /\ IsErr(result)
        /\ emResult = result
        /\ summaries = <<>>

----------------------------------------------------------------------------
(* C7 *)

\* the positions whose module a check of the run found unavailable
UnavailableAt ==
    {k \in 1..N : HasEv("is_available", k, "false")
                    \/ HasEv("load_is_available", k, "false")}

\* C7: every is_available() of the run that returns false, at the executor's
\* check or inside load_module, makes the module a skipped one: failed counts
\* only the modules whose execute returned an error, no "Continue with
\* remaining modules?" prompt is shown for it, and no error reaches the caller.
C7_UnavailableAlwaysSkipped ==
    /\ \A k \in UnavailableAt : Count("prompt_continue", k) = 0
    /\ failed = Cardinality({k \in 1..N : HasEv("execute_returned", k, "err")})
    /\ skipped >= Cardinality(UnavailableAt)

----------------------------------------------------------------------------
(* C8 *)

\* a prompt of execute_modules was answered with an error
ModulePromptFailed ==
    \E j \in DOMAIN trace :
        /\ trace[j].ev \in {"prompt_execute", "prompt_continue"}
        /\ trace[j].val \in ProviderErrors

\* the positions whose load_module call returned an error
FailedAt ==
    {k \in 1..N : HasEv("execute_returned", k, "err")
                    \/ HasEv("load_is_available", k, "false")}

\* C8: an error of a module's execute is counted in failed and is never the
\* result of the run; when no lookup and no prompt of execute_modules fails,
\* execute_modules returns Ok whatever the modules returned.
C8_ExecuteErrorsAreCounted ==
    /\ emResult \notin ExecErrors
    /\ result \notin ExecErrors
    /\ pc # "executing" => failed = Cardinality(FailedAt)
    /\ (pc \in {"reboot_check", "prompt_reboot", "done"}
          /\ HasEv("prompt_workflow", 0, "yes")
          /\ ~LookupFailed /\ ~ModulePromptFailed)
       => emResult = Ok

C8_Witness ==
    /\ emResult = Ok
    /\ failed = 2
    /\ \E k \in 1..N : HasEv("execute_returned", k, "err") /\ StoppedAt(k)

----------------------------------------------------------------------------
(* C9 *)

\* C9: an error of the confirmation provider at the overall confirmation, at
\* a per-module prompt or at the continue prompt ends the run there: it is the
\* run's result, nothing is processed after it and no summary is printed.
C9_PromptErrorAborts ==
    \A j \in DOMAIN trace :
        (trace[j].ev \in PromptEvents /\ trace[j].val \in ProviderErrors) =>
            /\ j = Len(trace)
            /\ pc = "done"
            /\ result = External(trace[j].val)
            /\ summaries = <<>>

C9_Witness ==
    /\ pc = "done"
    /\ completed = 1
    /\ \E k \in 2..N : HasEv("prompt_execute", k, "io_closed")

----------------------------------------------------------------------------
(* C10 *)

\* the events of the list positions, in order
ModuleEvents == SelectSeq(trace, LAMBDA e : e.idx >= 1)

\* the list positions looked up, in order
LookupOrder ==
    LET ls == SelectSeq(trace, LAMBDA e : e.ev = "get_module")
    IN  [j \in DOMAIN ls |-> ls[j].idx]

\* C10: the run is sequential: positions are visited in strictly increasing
\* list order, at most one execute is in progress, nothing happens between a
\* call of execute and its return, and every step of a later position comes
\* after the return of the earlier position's execute.
C10_StrictlySequential ==
    LET lo == LookupOrder
        me == ModuleEvents
    IN  /\ \A j \in DOMAIN lo : lo[j] = j
        /\ \A a \in 1..(Len(me) - 1) : me[a].idx <= me[a + 1].idx
        /\ \A j \in DOMAIN trace :
              trace[j].ev = "execute" =>
                  IF j = Len(trace) THEN pc = "executing"
                  ELSE /\ trace[j + 1].ev = "execute_returned"
                       /\ trace[j + 1].idx = trace[j].idx
        /\ \A k \in 1..N : Count("execute", k) <= 1
        /\ pc = "executing" <=>
              (trace # <<>> /\ trace[Len(trace)].ev = "execute")

C10_Witness ==
    /\ pc = "executing"
    /\ i = 3
    /\ Count("execute_returned", 1) = 1
    /\ Count("execute_returned", 2) = 1

----------------------------------------------------------------------------
(* C11 *)

\* C11: when the operator declines "Continue with workflow execution?",
\* execute_workflow returns Ok at once: no module is looked up, checked,
\* prompted or executed, no summary is printed and the reboot check is not
\* invoked.
C11_DeclinedWorkflowIsNoOp ==
    HasEv("prompt_workflow", 0, "no") =>
        /\ pc = "done"
        /\ result = Ok
        /\ trace = <<Ev("plan", 0, "ok"), Ev("prompt_workflow", 0, "no")>>
        /\ summaries = <<>>
        /\ emResult = NoResult
        /\ completed = 0 /\ failed = 0 /\ skipped = 0

C11_Witness ==
    HasEv("prompt_workflow", 0, "no") /\ N = 3 /\ pc = "done"

----------------------------------------------------------------------------
(* C12 *)

\* the operator accepted the overall confirmation
Accepted == HasEv("prompt_workflow", 0, "yes")

\* the position of the first event e of the history (0 when there is none)
FirstAt(e) ==
    IF \E j \in DOMAIN trace : trace[j].ev = e
    THEN CHOOSE j \in DOMAIN trace :
            /\ trace[j].ev = e
            /\ \A q \in 1..(j - 1) : trace[q].ev # e
    ELSE 0

\* C12 as stated: whenever the operator accepted the overall confirmation,
\* the finished run invoked the reboot check exactly once.
C12_RebootCheckAfterEveryAcceptedRun ==
    (pc = "done" /\ Accepted) => Count("check_reboot_needed", 0) = 1

\* C12 as amended: when the executor returns Ok, the reboot check is invoked
\* exactly once, after the executor's summary and return, whatever the
\* counters are and also when the operator stopped the loop; it is never
\* invoked before the executor has returned, and not at all when the executor
\* returns an error.
C12_RebootCheckOnceAfterOkExecutor ==
    /\ Count("check_reboot_needed", 0) <= 1
    /\ Count("check_reboot_needed", 0) = 1 =>
          /\ Accepted
          /\ emResult = Ok
          /\ FirstAt("summary") > 0
          /\ FirstAt("summary") < FirstAt("check_reboot_needed")
          /\ \A j \in DOMAIN trace :
                trace[j].idx >= 1 => j < FirstAt("check_reboot_needed")
    /\ (emResult = Ok /\ pc \in {"prompt_reboot", "done"}) =>
          Count("check_reboot_needed", 0) = 1
    /\ IsErr(emResult) => Count("check_reboot_needed", 0) = 0

C12_Witness ==
    /\ pc = "done"
    /\ Count("check_reboot_needed", 0) = 1
    /\ failed = 1 /\ skipped = 1 /\ completed = 0
    /\ \E k \in 1..N : StoppedAt(k)

----------------------------------------------------------------------------
(* C13 *)

\* C13: the reboot check is advisory: when the executor returned Ok,
\* execute_workflow returns Ok whatever check_reboot_needed does, and the
\* check asks the operator nothing.
C13_RebootCheckAdvisory ==
    (pc = "done" /\ emResult = Ok) =>
        /\ result = Ok
        /\ Count("prompt_reboot", 0) = 0

----------------------------------------------------------------------------
(* C14 *)

\* C14: execute_workflow called with a name the Workflow Registry does not
\* hold returns a NotFound error before anything else: no plan, no
\* confirmation, no module, no summary, no reboot check.
C14_UnknownWorkflowIsNotFound ==
    (name \notin Workflows /\ pc # "wf_lookup") =>
        /\ pc = "done"
        /\ result = not_found(<<"workflow not found", name>>)
        /\ trace = <<>>
        /\ summaries = <<>>
        /\ emResult = NoResult

C14_Witness ==
    name \notin Workflows /\ pc = "done" /\ N = 3

----------------------------------------------------------------------------
(* The claims about the ModuleManager *)

\* the argument list of the load_module call holds --help or -h somewhere
ContainsHelp ==
    \E k \in DOMAIN loadArgs : loadArgs[k] \in {"--help", "-h"}

\* byte string a is lexicographically before byte string b
LexLess(a, b) ==
    \E k \in 1..(Len(a) + 1) :
        /\ k <= Len(b)
        /\ \A j \in 1..(k - 1) : a[j] = b[j]
        /\ (k = Len(a) + 1 \/ a[k] < b[k])

\* C15: for every registered module and every argument list, load_module of
\* a module whose is_available answers false returns an error and never
\* calls the module's execute.
C15_UnavailableNeverExecuted ==
    HasEv("is_available", 0, "false") =>
        /\ name \in Registry
        /\ pc = "done"
        /\ IsErr(result)
        /\ result = module(<<"not available", name>>)
        /\ Count("execute", 0) = 0
        /\ execArgs = <<>>

\* C15's case: an unavailable module was asked for with arguments, a help
\* flag among them
C15_Witness ==
    /\ HasEv("is_available", 0, "false")
    /\ loadArgs = <<"--dry-run", "--help">>
    /\ pc = "done"

\* C16: for a registered, available module, args holding --help or -h at any
\* position make load_module print the help, return Ok and not call execute.
C16_HelpFlagPrintsHelp ==
    (HasEv("is_available", 0, "true") /\ ContainsHelp) =>
        /\ pc = "done"
        /\ result = Ok
        /\ Count("help", 0) = 1
        /\ Count("execute", 0) = 0
        /\ execArgs = <<>>

\* C16's case: the help flag is the last argument, after another one
C16_Witness ==
    /\ HasEv("is_available", 0, "true")
    /\ loadArgs = <<"--dry-run", "-h">>
    /\ Count("help", 0) = 1
    /\ pc = "done"

\* C17: for a registered, available module and args without a help flag,
\* load_module calls execute exactly once with the given args and returns
\* exactly what execute returned.
C17_ExecuteOnceAndReturnItsValue ==
    (HasEv("is_available", 0, "true") /\ ~ContainsHelp) =>
        /\ pc \in {"cli_executing", "done"}
        /\ Count("execute", 0) = 1
        /\ execArgs = <<loadArgs>>
        /\ Count("help", 0) = 0
        /\ pc = "cli_executing" =>
              /\ Count("execute_returned", 0) = 0
              /\ result = NoResult
        /\ pc = "done" =>
              /\ Count("execute_returned", 0) = 1
              /\ result \in ExecResults
              /\ HasEv("execute_returned", 0, result.kind)

\* C17's case: execute was given one argument and failed, and load_module
\* returned that failure
C17_Witness ==
    /\ pc = "done"
    /\ name = "motd"
    /\ loadArgs = <<"--dry-run">>
    /\ execArgs = <<<<"--dry-run">>>>
    /\ result = system(<<"execute">>)

\* C18: get_module fails with NotFound when the name is not registered (and
\* returns the registered module when it is).
C18_LookupFailsWithNotFound ==
    /\ (pc = "done" /\ name \notin Registry) => result.kind = "NotFound"
    /\ (pc = "done" /\ name \in Registry) => HasEv("get_module", 0, "ok")

\* the half of C18 the code keeps: an unregistered name fails the lookup
\* before anything is asked of a module, a registered name passes it
C18_LookupFailsForUnregistered ==
    pc \in {"cli_executing", "done"} =>
        IF name \in Registry
        THEN HasEv("get_module", 0, "ok")
        ELSE /\ IsErr(result)
             /\ trace = <<Ev("get_module", 0, "err")>>
             /\ execArgs = <<>>

\* C19: discover_modules returns exactly one descriptor per registered
\* module, sorted by name in lexicographic order, each descriptor's available
\* flag being what the module's is_available answered at that call.
C19_DiscoverOnePerModuleSorted ==
    \A c \in DOMAIN discovered :
        LET d == discovered[c].result
            host == discovered[c].host
        IN  /\ Len(d) = Cardinality(Registry)
            /\ {d[k].name : k \in DOMAIN d} = Registry
            /\ \A k \in 1..(Len(d) - 1) :
                    LexLess(Bytes(d[k].name), Bytes(d[k + 1].name))
            /\ \A k \in DOMAIN d :
                    d[k].available = is_available(d[k].name, host[d[k].name])

\* C19's case: a call made while motd's directory is missing lists motd in
\* its sorted place as not available
C19_Witness ==
    \E c \in DOMAIN discovered :
        /\ ~discovered[c].host["motd"]
        /\ discovered[c].result[4].name = "motd"
        /\ ~discovered[c].result[4].available
        /\ discovered[c].result[1].name = "certs"
        /\ discovered[c].result[11].name = "zsh"

\* C20: two discover_modules calls on the same manager, with no registration
\* between them, return the same descriptors in the same order.
C20_DiscoverTwiceSame ==
    \A a, b \in DOMAIN discovered : discovered[a].result = discovered[b].result

\* the answers the modules' is_available give on a host
Answers(host) == [m \in Registry |-> is_available(m, host[m])]

\* C20 (amended): two discover_modules calls on the same manager return the
\* same names, descriptions and versions in the same order, and the same
\* available flags whenever every module's is_available answers the same at
\* both calls.
C20_DiscoverTwiceSameUnderSameAnswers ==
    \A a, b \in DOMAIN discovered :
        LET da == discovered[a].result
            db == discovered[b].result
        IN  /\ Len(da) = Len(db)
            /\ \A k \in DOMAIN da :
                    /\ da[k].name = db[k].name
                    /\ da[k].description = db[k].description
                    /\ da[k].version = db[k].version
            /\ Answers(discovered[a].host) = Answers(discovered[b].host)
                   => da = db

\* C20's case: two calls on hosts that differ, the modules answering the
\* same on both, with the same result
C20_Witness ==
    /\ Len(discovered) = 2
    /\ discovered[1].host # discovered[2].host
    /\ Answers(discovered[1].host) = Answers(discovered[2].host)
    /\ discovered[1].result = discovered[2].result

----------------------------------------------------------------------------
(* The claims about the built-in workflows, the configuration and the       *)
(* registration of the modules                                              *)

\* C21: list_workflows returns exactly one (name, description) pair per
\* registered workflow, sorted by name, and executes and modifies nothing.
C21_ListWorkflowsSortedComplete ==
    /\ \A c \in DOMAIN listed :
          LET l == listed[c] IN
          /\ Len(l) = Cardinality(Workflows)
          /\ {l[k][1] : k \in DOMAIN l} = Workflows
          /\ \A k \in 1..(Len(l) - 1) :
                  LexLess(Bytes(l[k][1]), Bytes(l[k + 1][1]))
          /\ \A k \in DOMAIN l : l[k][2] = Workflow_description(l[k][1])
    /\ listed # <<>> =>
          /\ trace = <<>>
          /\ result = NoResult /\ emResult = NoResult
          /\ modules = <<>> /\ plan = <<>> /\ summaries = <<>>
          /\ completed = 0 /\ failed = 0 /\ skipped = 0

\* C21's case: two calls were made, each listing complete first and
\* security last
C21_Witness ==
    /\ Len(listed) = 2
    /\ \A c \in 1..2 :
          /\ listed[c][1][1] = "complete"
          /\ listed[c][3][1] = "essential"
          /\ listed[c][5] = <<"security", "Firewall, SSH, sysctl hardening">>

\* the values among ConfigValues that are no u16
NotAPort == {<<"6", "5", "5", "3", "6">>, <<"i", "n", "v", "a", "l", "i", "d">>, <<"t", "r", "u", "e">>, <<"f", "a", "l", "s", "e">>, <<>>}

\* the values among ConfigValues that are no bool
NotABool == ConfigValues \ {<<"t", "r", "u", "e">>, <<"f", "a", "l", "s", "e">>}

\* C22: a Config::set that fails validation (default_ssh_port with a value
\* that is no port number, colored_output with a value that is no boolean)
\* returns an error and leaves the whole Config as it was before the call.
C22_FailedSetChangesNothing ==
    \A c \in DOMAIN setCalls :
        LET s == setCalls[c] IN
        /\ (\/ s.key = "default_ssh_port" /\ s.value \in NotAPort
            \/ s.key = "colored_output" /\ s.value \in NotABool)
              => /\ s.result.kind = "Validation"
                 /\ s.after = s.before
        /\ IsErr(s.result) => s.after = s.before
        /\ s.after = (IF c = Len(setCalls) THEN config ELSE setCalls[c + 1].before)

\* C22's case: the port was set to 2222, then a set of the port to 65536
\* failed, and the port is still 2222
C22_Witness ==
    /\ Len(setCalls) = 2
    /\ setCalls[1].result = Ok
    /\ setCalls[2].key = "default_ssh_port"
    /\ setCalls[2].value = <<"6", "5", "5", "3", "6">>
    /\ IsErr(setCalls[2].result)
    /\ config.default_ssh_port = 2222
    /\ config # Config_default

\* C23: load_module applies its gates in the order lookup, availability,
\* help flag, execute and stops at the first that fires: an unregistered
\* name yields the lookup error before any availability check, an
\* unavailable module called with a help flag yields the unavailability
\* error without its help being printed, and help is printed only for a
\* registered and available module.
C23_GateOrder ==
    /\ (name \notin Registry /\ pc = "done") =>
          /\ trace = <<Ev("get_module", 0, "err")>>
          /\ IsErr(result)
          /\ result = get_module(name)
    /\ (HasEv("is_available", 0, "false") /\ ContainsHelp) =>
          /\ result = module(<<"not available", name>>)
          /\ Count("help", 0) = 0
          /\ Count("execute", 0) = 0
    /\ Count("help", 0) > 0 =>
          /\ name \in Registry
          /\ HasEv("get_module", 0, "ok")
          /\ HasEv("is_available", 0, "true")
          /\ Count("execute", 0) = 0
    /\ Count("execute", 0) > 0 =>
          /\ HasEv("get_module", 0, "ok")
          /\ HasEv("is_available", 0, "true")
          /\ ~ContainsHelp
    /\ pc \in {"cli_executing", "done"} =>
          /\ FirstAt("get_module") = 1
          /\ Count("is_available", 0) > 0 => FirstAt("is_available") = 2
          /\ Count("help", 0) > 0 => FirstAt("help") = 3
          /\ Count("execute", 0) > 0 => FirstAt("execute") = 3
          /\ Count("get_module", 0) = 1
          /\ Count("is_available", 0) <= 1
          /\ Count("help", 0) + Count("execute", 0) <= 1

\* C23's case: motd is not available and is asked for its help
C23_Witness ==
    /\ name = "motd"
    /\ loadArgs = <<"-h">>
    /\ pc = "done"
    /\ trace = <<Ev("get_module", 0, "ok"), Ev("is_available", 0, "false")>>
    /\ result = module(<<"not available", "motd">>)

----------------------------------------------------------------------------
(* The claims about a whole run of the executor *)

\* the run was aborted by a module lookup error or by an error of one of the
\* executor's prompts
Aborted == LookupFailed \/ ModulePromptFailed

\* the events of list positions (not of the workflow as a whole) all come
\* before position p of the history
ModuleEventsBefore(p) ==
    \A j \in DOMAIN trace : trace[j].idx >= 1 => j < p

\* C24: every run of execute_modules that is not aborted by a module lookup
\* error or a prompt error prints exactly one summary, after the last module
\* it processed and never before, also when modules failed and when the
\* operator stopped the run after a failure.
C24_OneSummaryAtTheEnd ==
    LET printed == Len(summaries) IN
    /\ printed <= 1
    /\ Count("summary", 0) = printed
    /\ pc \in {"wf_lookup", "wf_confirm", "loop", "prompt_execute",
                "load_module", "executing", "prompt_continue", "summary"}
          => printed = 0
    /\ printed = 1 =>
          /\ ~Aborted
          /\ ModuleEventsBefore(FirstAt("summary"))
          /\ i > N \/ (\E k \in 1..N : StoppedAt(k) /\ i = k)
          /\ summaries[1] = SummaryLines(completed, failed, skipped)
    /\ (pc \in {"reboot_check", "prompt_reboot", "done"} /\ printed = 0)
          => ~Accepted \/ Aborted

\* C24's case: the second of three modules failed, the operator stopped the
\* run there, and the summary was printed
C24_Witness ==
    /\ N = 3
    /\ StoppedAt(2)
    /\ summaries = <<SummaryLines(1, 1, 0)>>
    /\ pc = "reboot_check"

\* C25: when the list holds an unregistered name at a position k after the
\* first, every earlier position is processed as usual (availability asked,
\* prompted if available, executed if confirmed) before the run aborts at k;
\* the abort undoes nothing the earlier positions did, and no position after
\* k is processed.
C25_AbortKeepsEarlierWork ==
    \A k \in 1..N :
        HasEv("get_module", k, "err") =>
            /\ pc = "done"
            /\ modules[k] \notin Registry
            /\ result = get_module(modules[k])
            /\ trace[Len(trace)] = Ev("get_module", k, "err")
            /\ \A j \in DOMAIN trace : trace[j].idx <= k
            /\ completed + failed + skipped = k - 1
            /\ completed =
                 Cardinality({j \in 1..(k - 1) : HasEv("execute_returned", j, "ok")})
            /\ \A j \in 1..(k - 1) :
                  /\ HasEv("get_module", j, "ok")
                  /\ Count("is_available", j) = 1
                  /\ HasEv("is_available", j, "true")
                        => Count("prompt_execute", j) = 1
                  /\ HasEv("prompt_execute", j, "yes")
                        => Count("load_is_available", j) = 1
                  /\ HasEv("load_is_available", j, "true")
                        => /\ Count("execute", j) = 1
                           /\ Count("execute_returned", j) = 1

\* C25's case: the third name is not registered; the first module was
\* executed and the second skipped before the run aborted
C25_Witness ==
    /\ modules = <<"hostname", "motd", "timezone">>
    /\ HasEv("execute_returned", 1, "ok")
    /\ HasEv("is_available", 2, "false")
    /\ HasEv("get_module", 3, "err")
    /\ completed = 1 /\ skipped = 1 /\ failed = 0
    /\ pc = "done"

\* the list positions that have an event e of value v
PosOf(e, v) ==
    {trace[j].idx : j \in {q \in DOMAIN trace :
                              /\ trace[q].ev = e
                              /\ trace[q].val = v
                              /\ trace[q].idx >= 1}}

\* the list positions whose processing has finished, by the counter each
\* one went to
SkippedAt == PosOf("is_available", "false") \cup PosOf("prompt_execute", "no")

\* the positions whose execute returned Ok
CompletedAt == PosOf("execute_returned", "ok")

\* the positions whose load_module returned an error
NotCompletedAt ==
    PosOf("execute_returned", "err") \cup PosOf("load_is_available", "false")

\* C26: the counters start at 0; in every state completed + failed + skipped
\* is the number of list positions whose processing has finished and is at
\* most n; each such position went to exactly one counter, once; at the
\* summary the sum is n unless the operator stopped the run after a failure.
C26_OutcomeAccounting ==
    LET ca == CompletedAt
        fa == NotCompletedAt
        sa == SkippedAt
        sum == completed + failed + skipped
        stopped == PosOf("prompt_continue", "no")
    IN  /\ pc \in {"wf_lookup", "wf_confirm"}
              => completed = 0 /\ failed = 0 /\ skipped = 0
        /\ completed = Cardinality(ca)
        /\ failed = Cardinality(fa)
        /\ skipped = Cardinality(sa)
        /\ ca \cap fa = {}
        /\ ca \cap sa = {}
        /\ fa \cap sa = {}
        /\ sum = Cardinality(ca \cup fa \cup sa)
        /\ sum <= N
        /\ Len(summaries) = 1 =>
              IF stopped # {}
              THEN \E k \in stopped : sum = k
              ELSE sum = N

\* C26's case: a run over three modules that ended with one completed, one
\* failed and one skipped
C26_Witness ==
    /\ N = 3
    /\ Len(summaries) = 1
    /\ completed = 1 /\ failed = 1 /\ skipped = 1
    /\ ~(\E k \in 1..N : StoppedAt(k))
    /\ pc = "done"

----------------------------------------------------------------------------
(* The claims about the lists of the built-in workflows *)

\* C27: every module name listed by every built-in workflow is a key of the
\* Module Registry, so no built-in workflow aborts with a module lookup
\* error.
C27_BuiltinNamesRegistered ==
    name \in Workflows =>
        /\ \A k \in DOMAIN plan : plan[k] \in Registry
        /\ \A k \in DOMAIN modules : modules[k] \in Registry
        /\ ~LookupFailed

\* what holds of the built-in lists: the only listed name that is not
\* registered is timezone, which essential lists third
C27_OnlyTimezoneUnregistered ==
    /\ \A w \in DefinesModules :
          \A k \in DOMAIN ExecuteList(w) :
              ExecuteList(w)[k] \notin Registry
                  <=> (w = "essential" /\ k = 3 /\ ExecuteList(w)[k] = "timezone")
    /\ LookupFailed =>
          /\ name = "essential"
          /\ HasEv("get_module", 3, "err")
          /\ pc = "done"
          /\ result = module(<<"not found", "timezone">>)

\* C28: for every registered workflow, the module list shown in the plan
\* (Workflow::modules) is, name for name and in the same order, the list the
\* executor iterates when Workflow::execute runs.
C28_PlanIsExecutedList ==
    /\ \A w \in Workflows :
          /\ w \in DefinesModules
          /\ Workflow_modules(w) = ExecuteList(w)
    /\ pc \in {"loop", "prompt_execute", "load_module", "executing",
                "prompt_continue", "summary"} => modules = plan

\* what holds of the plan: the workflows that define modules() show the list
\* their execute hands to the executor
C28_PlanIsExecutedListWhereDefined ==
    /\ \A w \in DefinesModules : Workflow_modules(w) = ExecuteList(w)
    /\ pc \in {"loop", "prompt_execute", "load_module", "executing",
                "prompt_continue", "summary"}
          => /\ modules = plan
             /\ modules = ExecuteList(name)
             /\ Accepted

----------------------------------------------------------------------------
(* Termination *)

\* what every state of a run satisfies: each list position is looked up at
\* most once, in increasing order, in at most n iterations, and the executor
\* ends with the summary or with an error
C29_Bounded ==
    LET lo == LookupOrder IN
    /\ Len(lo) <= N
    /\ \A a \in 1..(Len(lo) - 1) : lo[a] < lo[a + 1]
    /\ \A k \in 1..N :
          /\ Count("get_module", k) <= 1
          /\ Count("prompt_execute", k) <= 1
          /\ Count("execute", k) <= 1
          /\ Count("prompt_continue", k) <= 1
    /\ emResult # NoResult =>
          \/ emResult = Ok /\ Len(summaries) = 1
          \/ IsErr(emResult) /\ summaries = <<>>
    /\ pc = "done" => result # NoResult

\* C29: when every prompt and every execute returns, every call of
\* execute_workflow terminates: the executor processes each list position at
\* most once, in increasing order, never tries a module again, and ends
\* after at most n iterations with the summary or an error.
C29_Terminates == []C29_Bounded /\ <>(pc = "done")

\* C29's case: a run over three modules, the second of which failed, came
\* to its end
C29_Witness ==
    /\ N = 3
    /\ pc = "done"
    /\ LookupOrder = <<1, 2, 3>>
    /\ HasEv("execute_returned", 2, "err")
    /\ HasEv("prompt_continue", 2, "yes")
    /\ Len(summaries) = 1
    /\ result = Ok

----------------------------------------------------------------------------
(* The claim about the registration *)

\* the modules registered so far, in registration order
RegisteredSoFar == SubSeq(allModules, 1, i - 1)

\* the position of the last module named n among those registered so far
\* (0 when there is none)
LastNamed(n) ==
    IF \E k \in DOMAIN RegisteredSoFar : RegisteredSoFar[k].name = n
    THEN CHOOSE k \in DOMAIN RegisteredSoFar :
            /\ RegisteredSoFar[k].name = n
            /\ \A q \in (k + 1)..Len(RegisteredSoFar) : RegisteredSoFar[q].name # n
    ELSE 0

\* C30: the Module Registry holds at most one module per name, each under the
\* key that is its own name(); registering a second module of a name raises
\* no error and replaces the first, so a lookup by that name returns the
\* module registered last.
C30_LastRegistrationWins ==
    /\ DOMAIN registry = {RegisteredSoFar[k].name : k \in DOMAIN RegisteredSoFar}
    /\ Cardinality(DOMAIN registry) <= Len(RegisteredSoFar)
    /\ \A n \in DOMAIN registry :
          /\ registry[n].name = n
          /\ registry[n] = RegisteredSoFar[LastNamed(n)]
    /\ pc \in {"registered", "done"} =>
          /\ emResult = Ok
          /\ i = Len(allModules) + 1
    /\ pc = "done" =>
          IF LastNamed(name) = 0
          THEN IsErr(result)
          ELSE /\ result.kind = "Ok"
               /\ result.msg = <<name, allModules[LastNamed(name)].impl>>

\* C30's case: three modules were registered, the first and the last of
\* them named ssh, and the lookup of ssh returned the last
C30_Witness ==
    /\ allModules = <<Module("ssh", "A"), Module("motd", "A"), Module("ssh", "B")>>
    /\ name = "ssh"
    /\ pc = "done"
    /\ DOMAIN registry = {"ssh", "motd"}
    /\ result = Found(Module("ssh", "B"))

====
